---------------------------- MODULE Spec2Model ----------------------------
(***************************************************************************)
(* A model of src/src/components/ColorPaletteGenerator.vue: the colour     *)
(* conversions (HSLToRGB, RGBToHex, hexToHSL), the palette and shade       *)
(* generation, and the component's reactive state with its handlers.       *)
(*                                                                         *)
(* JavaScript arrays are 0-based and TLA+ sequences 1-based: palette[i] of *)
(* the source is palette[i + 1] here.  A nullable ref is the empty         *)
(* sequence (null) or a one-element sequence (a value).  A text is a       *)
(* sequence of one-character strings.                                      *)
(*                                                                         *)
(* Every handler runs to completion, together with the watcher job it      *)
(* schedules (Vue flushes it before the next event is handled), so each    *)
(* handler and the regeneration it triggers are one action.                *)
(***************************************************************************)
EXTENDS Integers, Sequences, FiniteSets

VARIABLES
    baseColor,      \* line 21: reactive {h, s, l}
    palette,        \* line 22: Color[] with a shades list on every entry
    selectedColor,  \* line 23: number | null
    selectedShade,  \* line 24: Color | null (with rowIndex and index)
    hexInput,       \* line 25: the text of the hex field
    nEvents,        \* number of user events handled so far (bounds the runs)
    last,           \* the last handler that ran, and what it started from
    probe           \* the value a conversion pipeline is carrying

vars == <<baseColor, palette, selectedColor, selectedShade, hexInput, nEvents, last, probe>>

-----------------------------------------------------------------------------
(* Bounds of the exploration. *)

\* User events per run of the component specification.
MaxEvents == 3

\* User events per run of the full-range slider specification.
MaxSliderEvents == 2

\* Longest text typed into the hex field in the hex-entry specification.
MaxTextLen == 7

\* Channel values within this distance of an anchor are converted.
ChannelSpan == 2

-----------------------------------------------------------------------------
(* Helpers. *)

Null == <<>>

Some(v) == <<v>>

Min(a, b) == IF a < b THEN a ELSE b

Max(a, b) == IF a > b THEN a ELSE b

\* Array.prototype.slice(from, to) on a sequence, with 0-based bounds.
Slice(seq, from, to) == SubSeq(seq, from + 1, Min(to, Len(seq)))

\* Math.round of a binary64 value whose exact counterpart is num / den
\* (num >= 0, den > 0).  Math.round rounds half-integers up.  The binary64
\* value carries the rounding error of the operations that computed it, a
\* few units in the last place: it cannot move the value across a
\* half-integer the exact value is not on, but when num / den is exactly a
\* half-integer the sign of that error decides between the two neighbours.
\* `up` is that sign; the specifications try both.
Round(num, den, up) ==
    LET q == num \div den
        r == num % den
    IN  IF 2 * r = den THEN (IF up THEN q + 1 ELSE q)
        ELSE IF 2 * r > den THEN q + 1 ELSE q

\* Whether Math.round of num / den is decided by the binary64 rounding error.
IsTie(num, den) == 2 * (num % den) = den

-----------------------------------------------------------------------------
(* Colour conversion utilities (lines 27-81). *)

\* The not-a-number that parseInt returns when no digit can be read.
NaN == -1

HexDigits == <<"0", "1", "2", "3", "4", "5", "6", "7", "8", "9", "a", "b", "c", "d", "e", "f">>

UpperHexDigits == <<"0", "1", "2", "3", "4", "5", "6", "7", "8", "9", "A", "B", "C", "D", "E", "F">>

\* The characters of the class [0-9A-Fa-f].
HexClass == {HexDigits[i] : i \in 1..16} \cup {UpperHexDigits[i] : i \in 1..16}

HexDigitValue(c) ==
    (CHOOSE i \in 1..16 : HexDigits[i] = c \/ UpperHexDigits[i] = c) - 1

\* Number.prototype.toString(16) of an integer c >= 0.
RECURSIVE ToString16(_)
ToString16(c) ==
    IF c < 16 THEN <<HexDigits[c + 1]>>
    ELSE Append(ToString16(c \div 16), HexDigits[(c % 16) + 1])

\* toHex of RGBToHex (lines 43-46).
toHex(c) ==
    LET hex == ToString16(c)
    IN  IF Len(hex) = 1 THEN <<"0">> \o hex ELSE hex

\* RGBToHex (lines 42-48).
RGBToHex(r, g, b) == <<"#">> \o toHex(r) \o toHex(g) \o toHex(b)

\* parseInt(str, 16): the value of the longest prefix of hex digits, NaN
\* when there is none.
RECURSIVE ParsePrefix16(_, _, _)
ParsePrefix16(str, i, acc) ==
    IF i > Len(str) \/ str[i] \notin HexClass THEN acc
    ELSE ParsePrefix16(str, i + 1, 16 * acc + HexDigitValue(str[i]))

ParseInt16(str) ==
    IF Len(str) = 0 \/ str[1] \notin HexClass THEN NaN
    ELSE ParsePrefix16(str, 1, 0)

\* hex.replace(/^#/, '') (line 51).
StripHash(hex) == IF Len(hex) > 0 /\ hex[1] = "#" THEN Tail(hex) ELSE hex

\* The three channels hexToHSL parses (lines 51-55), before the division
\* by 255.
HexChannels(hex) ==
    LET h == StripHash(hex)
    IN  [r |-> ParseInt16(Slice(h, 0, 2)),
         g |-> ParseInt16(Slice(h, 2, 4)),
         b |-> ParseInt16(Slice(h, 4, 6))]

\* Lines 57-80 on channels R, G, B in 0..255, in exact arithmetic scaled by
\* 255: max = Mx / 255, min = Mn / 255, d = D / 255, l = Sm / 510.
\*   l * 100 = 100 * Sm / 510             (never a half-integer)
\*   s * 100 = 100 * D / (510 - Sm)  if l > 0.5, i.e. Sm > 255
\*           = 100 * D / Sm          otherwise
\*   h * 360 = 60 * ((G - B) / D + (6 if G < B else 0))   when max is r
\*           = 60 * ((B - R) / D + 2)                     when max is g
\*           = 60 * ((R - G) / D + 4)                     when max is b
\* The three operators below are the numerator of h * 360 over D, the
\* denominator of s * 100 under 100 * D, and the result; ties.h and ties.s
\* are the directions of the two roundings that can fall on a half-integer.
HueNumerator(R, G, B) ==
    LET Mx == Max(R, Max(G, B))
        D  == Mx - Min(R, Min(G, B))
    IN  IF Mx = R THEN 60 * (G - B) + (IF G < B THEN 360 * D ELSE 0)
        ELSE IF Mx = G THEN 60 * (B - R) + 120 * D
        ELSE 60 * (R - G) + 240 * D

SaturationDenominator(R, G, B) ==
    LET Sm == Max(R, Max(G, B)) + Min(R, Min(G, B))
    IN  IF Sm > 255 THEN 510 - Sm ELSE Sm

ChannelsToHSL(R, G, B, ties) ==
    LET Mx == Max(R, Max(G, B))
        Mn == Min(R, Min(G, B))
        D  == Mx - Mn
        l  == Round(100 * (Mx + Mn), 510, TRUE)
    IN  IF Mx = Mn THEN [h |-> 0, s |-> 0, l |-> l]
        ELSE [h |-> Round(HueNumerator(R, G, B), D, ties.h),
              s |-> Round(100 * D, SaturationDenominator(R, G, B), ties.s),
              l |-> l]

\* hexToHSL (lines 50-81).  A channel that is not a number makes max, min
\* and with them h, s and l not a number.
hexToHSL(hex, ties) ==
    LET c == HexChannels(hex)
    IN  IF c.r = NaN \/ c.g = NaN \/ c.b = NaN
        THEN [h |-> NaN, s |-> NaN, l |-> NaN]
        ELSE ChannelsToHSL(c.r, c.g, c.b, ties)

\* The directions the roundings of hexToHSL can take.
HSLTies == [h : BOOLEAN, s : BOOLEAN]

\* f(n) of HSLToRGB (lines 31-34) times 255, rounded (lines 36-38), for
\* integers h >= 0 and s, l in 0..100, in exact arithmetic:
\*   k(n) = ((30 * n + h) mod 360) / 30
\*   a    = s * min(l, 100 - l) / 10000
\*   f(n) = l / 100 - a * max(-1, min(k - 3, 9 - k, 1))
\*        = (3000 * l - s * min(l, 100 - l) * t) / 300000
\* with t = max(-30, min(30 * k - 90, 270 - 30 * k, 30)).
ChannelNumerator(n, h, s, l) ==
    LET k30 == (30 * n + h) % 360
        t   == Max(-30, Min(k30 - 90, Min(270 - k30, 30)))
        a   == s * Min(l, 100 - l)
    IN  255 * (3000 * l - a * t)

HSLChannel(n, h, s, l, up) == Round(ChannelNumerator(n, h, s, l), 300000, up)

\* Mutant of HSLToRGB: the offsets of the green and the blue channel swapped.
HSLToRGB_SwappedChannels(h, s, l, ties) ==
    [r |-> HSLChannel(0, h, s, l, ties.r),
     g |-> HSLChannel(4, h, s, l, ties.g),
     b |-> HSLChannel(8, h, s, l, ties.b)]

\* HSLToRGB (lines 28-40).
HSLToRGB(h, s, l, ties) ==
    [r |-> HSLChannel(0, h, s, l, ties.r),
     g |-> HSLChannel(8, h, s, l, ties.g),
     b |-> HSLChannel(4, h, s, l, ties.b)]

\* The directions the roundings of HSLToRGB can take.
RGBTies == [r : BOOLEAN, g : BOOLEAN, b : BOOLEAN]

-----------------------------------------------------------------------------
(* Palette and shade generation (lines 93-138). *)

\* The loop of generatePalette (lines 97-108) from iteration i on.
RECURSIVE PaletteLoop(_, _, _, _)
PaletteLoop(base, i, currentHue, newPalette) ==
    IF i >= 8 THEN newPalette
    ELSE PaletteLoop(base, i + 1,
                     currentHue + (IF i = 1 THEN 90 ELSE IF i = 7 THEN 60 ELSE 30),
                     Append(newPalette, [h |-> currentHue % 360, s |-> base.s,
                                         l |-> base.l, shades |-> <<>>]))

\* Mutant of NewPalette: the hue advances by 30 after every entry.
NewPalette_EvenSteps(base) ==
    [i \in 1..8 |-> [h |-> (base.h + 30 * (i - 1)) % 360, s |-> base.s,
                     l |-> base.l, shades |-> <<>>]]

\* The palette generatePalette builds from a base colour (lines 94-108).
NewPalette(base) == PaletteLoop(base, 0, base.h, <<>>)

\* lightnesses of generateShades (line 115).
lightnesses == <<80, 70, 60, 50, 40>>

\* One forEach of generateShades: a shade per lightness at saturation s.
ShadeRow(color, s) == [i \in 1..Len(lightnesses) |-> [h |-> color.h, s |-> s, l |-> lightnesses[i]]]

\* Mutant of NewShades: the saturation is shifted without Math.min and
\* Math.max.
NewShades_Unclamped(color) ==
    ShadeRow(color, color.s)
        \o ShadeRow(color, color.s + 20)
        \o ShadeRow(color, color.s - 20)

\* newShades of generateShades (lines 114-138).
NewShades(color) ==
    ShadeRow(color, color.s)
        \o ShadeRow(color, Min(100, color.s + 20))
        \o ShadeRow(color, Max(0, color.s - 20))

-----------------------------------------------------------------------------
(* The component's handlers. *)

\* Mutant of generatePalette: the regeneration also drops the selected index.
generatePalette_ClearsIndex ==
    /\ palette' = NewPalette(baseColor')
    /\ selectedColor' = Null
    /\ UNCHANGED selectedShade

\* Mutant of generatePalette: the new entries take over the old shade lists.
generatePalette_KeepsShades ==
    /\ palette' = [i \in 1..8 |->
                      [NewPalette(baseColor')[i] EXCEPT !.shades = palette[i].shades]]
    /\ UNCHANGED <<selectedColor, selectedShade>>

\* generatePalette (lines 93-111), run by the watcher after baseColor changed:
\* it reads the new base colour and replaces the palette, nothing else.
generatePalette ==
    /\ palette' = NewPalette(baseColor')
    /\ UNCHANGED <<selectedColor, selectedShade>>

\* watch(() => ({ ...baseColor }), () => generatePalette()) (lines 164-168):
\* a reactive property triggers only when it is set to a different value.
WatchBaseColor ==
    IF baseColor' # baseColor THEN generatePalette
    ELSE UNCHANGED <<palette, selectedColor, selectedShade>>

\* The hue slider (line 191): v-model.number="baseColor.h", min 0, max 360.
SetHue(v) ==
    /\ v # baseColor.h
    /\ baseColor' = [baseColor EXCEPT !.h = v]
    /\ UNCHANGED hexInput
    /\ WatchBaseColor

\* The saturation slider (line 195): min 0, max 100.
SetSaturation(v) ==
    /\ v # baseColor.s
    /\ baseColor' = [baseColor EXCEPT !.s = v]
    /\ UNCHANGED hexInput
    /\ WatchBaseColor

\* The lightness slider (line 199): min 0, max 100.
SetLightness(v) ==
    /\ v # baseColor.l
    /\ baseColor' = [baseColor EXCEPT !.l = v]
    /\ UNCHANGED hexInput
    /\ WatchBaseColor

\* Mutant of HexPatternTest: the pattern without its end anchor.
HexPatternTest_NoEndAnchor(text) ==
    LET rest == IF Len(text) > 0 /\ text[1] = "#" THEN Tail(text) ELSE text
    IN  /\ Len(rest) >= 6
        /\ \A i \in 1..6 : rest[i] \in HexClass

\* /^#?[0-9A-Fa-f]{6}$/.test(text) (line 148): an optional '#', then six
\* characters of the class, then the end of the text.
HexPatternTest(text) ==
    LET rest == IF Len(text) > 0 /\ text[1] = "#" THEN Tail(text) ELSE text
    IN  /\ Len(rest) = 6
        /\ \A i \in 1..6 : rest[i] \in HexClass

\* handleHexInput (lines 147-152) on the input event of the hex field
\* (lines 180-181), after v-model stored the new text.
handleHexInput(text, ties) ==
    /\ text # hexInput
    /\ hexInput' = text
    /\ IF HexPatternTest(text)
       THEN LET hsl == hexToHSL(text, ties)
            IN  baseColor' = [baseColor EXCEPT !.h = hsl.h, !.s = hsl.s, !.l = hsl.l]
       ELSE baseColor' = baseColor
    /\ WatchBaseColor

\* Mutant of generateShades: the selected shade is left as it is.
generateShades_KeepsShade(index) ==
    /\ UNCHANGED <<baseColor, hexInput>>
    /\ IF index + 1 \in DOMAIN palette
       THEN /\ palette' = [palette EXCEPT ![index + 1].shades = NewShades(palette[index + 1])]
            /\ selectedColor' = Some(index)
            /\ UNCHANGED selectedShade
       ELSE UNCHANGED <<palette, selectedColor, selectedShade>>

\* generateShades(color, index) (lines 113-145), called from the click on
\* palette entry index (line 213) with color = palette[index].
generateShades(index) ==
    /\ UNCHANGED <<baseColor, hexInput>>
    /\ IF index + 1 \in DOMAIN palette
       THEN /\ palette' = [palette EXCEPT ![index + 1].shades = NewShades(palette[index + 1])]
            /\ selectedColor' = Some(index)
            /\ selectedShade' = Null
       ELSE UNCHANGED <<palette, selectedColor, selectedShade>>

\* The palette entries the template renders (line 210).
PaletteIndices == {i - 1 : i \in DOMAIN palette}

\* v-if of the shades section (line 218): an array, even an empty one, is
\* truthy.
ShadesSectionShown ==
    /\ selectedColor # Null
    /\ selectedColor[1] + 1 \in DOMAIN palette

\* The shades a row of the section renders (lines 226, 237, 248).
RowShades(rowIndex) ==
    Slice(palette[selectedColor[1] + 1].shades, 5 * rowIndex, 5 * rowIndex + 5)

\* selectShade (lines 154-156).
selectShade(shade) ==
    /\ selectedShade' = Some(shade)
    /\ UNCHANGED <<baseColor, palette, selectedColor, hexInput>>

\* Mutant of ClickShade: the shade records its position in the whole list.
ClickShade_AbsoluteIndex(rowIndex, index) ==
    /\ ShadesSectionShown
    /\ index < Len(RowShades(rowIndex))
    /\ LET shade == RowShades(rowIndex)[index + 1]
       IN  selectShade([h |-> shade.h, s |-> shade.s, l |-> shade.l,
                        rowIndex |-> rowIndex, index |-> 5 * rowIndex + index])

\* The click on a rendered shade (lines 229, 240, 251):
\* selectShade({ ...shade, rowIndex, index }).
ClickShade(rowIndex, index) ==
    /\ ShadesSectionShown
    /\ index < Len(RowShades(rowIndex))
    /\ LET shade == RowShades(rowIndex)[index + 1]
       IN  selectShade([h |-> shade.h, s |-> shade.s, l |-> shade.l,
                        rowIndex |-> rowIndex, index |-> index])

-----------------------------------------------------------------------------
(* The component after setup, and the events of its user interface.        *)

\* The state after setup: the watcher is immediate (line 167), so the
\* palette of the initial base colour (line 21) is already generated.
InitComponent ==
    /\ baseColor = [h |-> 45, s |-> 70, l |-> 60]
    /\ palette = NewPalette([h |-> 45, s |-> 70, l |-> 60])
    /\ selectedColor = Null
    /\ selectedShade = Null
    /\ hexInput = <<>>
    /\ nEvents = 0
    /\ last = [op |-> "setup", hadShade |-> FALSE, changed |-> FALSE]

Init ==
    /\ InitComponent
    /\ probe = Null

\* Bookkeeping of one handled event.
Event(op, max) ==
    /\ nEvents < max
    /\ nEvents' = nEvents + 1
    /\ last' = [op |-> op, hadShade |-> selectedShade # Null, changed |-> baseColor' # baseColor]
    /\ UNCHANGED probe

\* The user moves the hue slider to a position of `positions`.
SlideHue(positions, max) ==
    \E v \in positions : SetHue(v) /\ Event("setHue", max)

SlideSaturation(positions, max) ==
    \E v \in positions : SetSaturation(v) /\ Event("setSaturation", max)

SlideLightness(positions, max) ==
    \E v \in positions : SetLightness(v) /\ Event("setLightness", max)

\* The user replaces the text of the hex field by one of `texts`.
TypeHex(texts, max) ==
    \E text \in texts, ties \in HSLTies :
        handleHexInput(text, ties) /\ Event("handleHexInput", max)

\* The user clicks a palette entry.
ClickPalette(indices, max) ==
    \E index \in indices \cap PaletteIndices :
        generateShades(index) /\ Event("generateShades", max)

\* The user clicks a rendered shade.
ClickShades(rows, indices, max) ==
    \E rowIndex \in rows, index \in indices :
        ClickShade(rowIndex, index) /\ Event("selectShade", max)

-----------------------------------------------------------------------------
(* Spec: the component under sampled slider positions and hex texts, every *)
(* palette entry and every shade, MaxEvents events per run.                *)

HueSamples == {0, 200, 360}

SaturationSamples == {10, 90}

LightnessSamples == {40}

HexSamples ==
    { <<"G", "G", "G", "G", "G", "G">>,
      <<"#", "1", "2", "3", "4", "5">>,
      <<"1", "2", "3", "4", "5", "6", "7">>,
      <<"#", "a", "a", "b", "b", "c", "c">>,
      <<"a", "a", "b", "b", "c", "c">>,
      <<"#", "F", "F", "0", "0", "0", "1">> }

Next ==
    \/ SlideHue(HueSamples, MaxEvents)
    \/ SlideSaturation(SaturationSamples, MaxEvents)
    \/ SlideLightness(LightnessSamples, MaxEvents)
    \/ TypeHex(HexSamples, MaxEvents)
    \/ ClickPalette(0..7, MaxEvents)
    \/ ClickShades(0..2, 0..4, MaxEvents)

Spec == Init /\ [][Next]_vars

-----------------------------------------------------------------------------
(* SpecHue: the hue slider over its whole range (line 191).                *)

NextHue ==
    \/ SlideHue(0..360, MaxSliderEvents)
    \/ SlideSaturation(SaturationSamples, MaxSliderEvents)
    \/ SlideLightness(LightnessSamples, MaxSliderEvents)
    \/ ClickPalette(0..7, MaxSliderEvents)

SpecHue == Init /\ [][NextHue]_vars

-----------------------------------------------------------------------------
(* SpecSaturation: the saturation slider over its whole range (line 195),  *)
(* and the shades of every palette entry.                                  *)

NextSaturation ==
    \/ SlideSaturation(0..100, MaxSliderEvents)
    \/ SlideHue(HueSamples, MaxSliderEvents)
    \/ SlideLightness(LightnessSamples, MaxSliderEvents)
    \/ ClickPalette(0..7, MaxSliderEvents)

SpecSaturation == Init /\ [][NextSaturation]_vars

-----------------------------------------------------------------------------
(* SpecHex: a palette entry and a shade are selected or not, and then one  *)
(* text, any text over HexAlphabet of at most MaxTextLen characters, is    *)
(* entered into the still empty hex field.                                 *)

\* A character outside the class, '#', and a digit of each range of it.
HexAlphabet == {"G", "#", "7", "a", "F"}

HexTexts == UNION {[1..n -> HexAlphabet] : n \in 0..MaxTextLen}

NextHex ==
    \/ hexInput = <<>> /\ selectedColor = Null /\ ClickPalette({3}, nEvents + 1)
    \/ hexInput = <<>> /\ selectedShade = Null /\ ClickShades({1}, {2}, nEvents + 1)
    \/ hexInput = <<>> /\ TypeHex(HexTexts, nEvents + 1)

SpecHex == Init /\ [][NextHex]_vars

-----------------------------------------------------------------------------
(* SpecConv: the conversions as a pipeline, RGBToHex, then hexToHSL, then  *)
(* HSLToRGB, on every triple of sampled channel values.                    *)

ChannelAnchors == {0, 43, 85, 128, 170, 228, 255}

Channels == {c \in 0..255 : \E a \in ChannelAnchors : c - a \in -ChannelSpan..ChannelSpan}

InitConv ==
    /\ InitComponent
    /\ \E r \in Channels, g \in Channels, b \in Channels :
           probe = [stage |-> "rgb", rgb |-> [r |-> r, g |-> g, b |-> b]]

ConvToHex ==
    /\ probe.stage = "rgb"
    /\ probe' = [stage |-> "hex", rgb |-> probe.rgb,
                 hex |-> RGBToHex(probe.rgb.r, probe.rgb.g, probe.rgb.b)]
    /\ UNCHANGED <<baseColor, palette, selectedColor, selectedShade, hexInput, nEvents, last>>

ConvToHSL ==
    /\ probe.stage = "hex"
    /\ \E ties \in HSLTies :
           probe' = [stage |-> "hsl", rgb |-> probe.rgb, hex |-> probe.hex,
                     hsl |-> hexToHSL(probe.hex, ties)]
    /\ UNCHANGED <<baseColor, palette, selectedColor, selectedShade, hexInput, nEvents, last>>

ConvToRGB ==
    /\ probe.stage = "hsl"
    /\ \E ties \in RGBTies :
           probe' = [stage |-> "back", rgb |-> probe.rgb, hex |-> probe.hex,
                     hsl |-> probe.hsl,
                     back |-> HSLToRGB(probe.hsl.h, probe.hsl.s, probe.hsl.l, ties)]
    /\ UNCHANGED <<baseColor, palette, selectedColor, selectedShade, hexInput, nEvents, last>>

NextConv ==
    \/ ConvToHex
    \/ ConvToHSL
    \/ ConvToRGB

SpecConv == InitConv /\ [][NextConv]_vars

-----------------------------------------------------------------------------
(* The claims. *)

\* C1: every mutation of the base colour leaves no shade selected: after a
\* step that changes baseColor, selectedShade is null.
C1_BaseEditClearsShade ==
    [][baseColor' # baseColor => selectedShade' = Null]_vars

\* C2: a click on palette entry i, for every i in 0..7, makes i the selected
\* index and leaves no shade selected, whatever was selected before.
C2_ClickSelectsEntry ==
    [][\A i \in 0..7 :
          generateShades(i) => selectedColor' = Some(i) /\ selectedShade' = Null]_vars

\* A click on entry 5 cleared a shade that was selected before it.
C2_Witness ==
    /\ last.op = "generateShades"
    /\ last.hadShade
    /\ selectedColor = Some(5)
    /\ selectedShade = Null

C3_HueOffsets == <<0, 30, 120, 150, 180, 210, 240, 270>>

\* C3: in every state the palette has exactly 8 entries, each with the s and
\* the l of the base colour, and entry i has hue (H + d_i) mod 360 for the
\* base hue H and d = [0, 30, 120, 150, 180, 210, 240, 270].
C3_PaletteOfBase ==
    /\ Len(palette) = 8
    /\ \A i \in 0..7 :
           /\ palette[i + 1].s = baseColor.s
           /\ palette[i + 1].l = baseColor.l
           /\ palette[i + 1].h = (baseColor.h + C3_HueOffsets[i + 1]) % 360

\* The slider is at its last position, 360, the hues wrapped around, and an
\* entry of that palette was clicked.
C3_Witness ==
    /\ baseColor.h = 360
    /\ palette[1].h = 0
    /\ palette[8].h = 270
    /\ palette[3].shades # <<>>

C4_Class ==
    {"0", "1", "2", "3", "4", "5", "6", "7", "8", "9",
     "a", "b", "c", "d", "e", "f", "A", "B", "C", "D", "E", "F"}

C4_SixDigits(text) == Len(text) = 6 /\ \A i \in 1..6 : text[i] \in C4_Class

C4_Matches(text) ==
    \/ C4_SixDigits(text)
    \/ Len(text) = 7 /\ text[1] = "#" /\ C4_SixDigits(Tail(text))

\* C4: a hex entry whose text does not match ^#?[0-9A-Fa-f]{6}$ changes
\* neither the base colour nor the palette nor the selected index nor the
\* selected shade; one whose text matches sets the base colour to the value
\* that both its six digits and '#' followed by them convert to.
C4_HexEntry ==
    [][hexInput' # hexInput =>
          IF C4_Matches(hexInput')
          THEN LET d == IF hexInput'[1] = "#" THEN Tail(hexInput') ELSE hexInput'
               IN  \E ties \in HSLTies :
                      /\ baseColor' = hexToHSL(d, ties)
                      /\ baseColor' = hexToHSL(<<"#">> \o d, ties)
          ELSE UNCHANGED <<baseColor, palette, selectedColor, selectedShade>>]_vars

\* A matching text with its '#' was entered while a shade was selected, and
\* it changed the base colour.
C4_Witness ==
    /\ hexInput = <<"#", "7", "a", "F", "7", "a", "F">>
    /\ last.op = "handleHexInput"
    /\ last.hadShade
    /\ last.changed

\* C5: the shades of a palette entry (h, s, l) are 15, all of hue h: entries
\* 0-4 of saturation s, 5-9 of min(100, s + 20), 10-14 of max(0, s - 20),
\* each group of lightness 80, 70, 60, 50, 40, so every saturation is in
\* 0..100.
C5_ShadesOfEntry ==
    \A i \in DOMAIN palette :
        LET color  == palette[i]
            shades == color.shades
        IN  shades # <<>> =>
                /\ Len(shades) = 15
                /\ \A k \in 0..14 :
                       /\ shades[k + 1].h = color.h
                       /\ shades[k + 1].l = <<80, 70, 60, 50, 40>>[(k % 5) + 1]
                       /\ shades[k + 1].s =
                              (IF k < 5 THEN color.s
                               ELSE IF k < 10 THEN (IF color.s + 20 > 100 THEN 100 ELSE color.s + 20)
                               ELSE (IF color.s - 20 < 0 THEN 0 ELSE color.s - 20))
                       /\ shades[k + 1].s \in 0..100

\* Shades were generated at saturation 90, where the boost is cut to 100.
C5_Witness ==
    \E i \in DOMAIN palette :
        /\ palette[i].s = 90
        /\ Len(palette[i].shades) = 15
        /\ palette[i].shades[6].s = 100
        /\ palette[i].shades[11].s = 70

C6_Abs(x) == IF x < 0 THEN -x ELSE x

\* The largest difference of a channel between the triple converted and the
\* triple that came back.
C6_Deviation ==
    Max(C6_Abs(probe.back.r - probe.rgb.r),
        Max(C6_Abs(probe.back.g - probe.rgb.g), C6_Abs(probe.back.b - probe.rgb.b)))

\* No rounding of hexToHSL on the converted triple is on a half-integer.
ExactHSL ==
    LET R == probe.rgb.r
        G == probe.rgb.g
        B == probe.rgb.b
        D == Max(R, Max(G, B)) - Min(R, Min(G, B))
    IN  D # 0 => /\ ~IsTie(HueNumerator(R, G, B), D)
                 /\ ~IsTie(100 * D, SaturationDenominator(R, G, B))

\* No rounding of HSLToRGB on the converted colour is on a half-integer.
ExactRGB ==
    \A n \in {0, 8, 4} :
        ~IsTie(ChannelNumerator(n, probe.hsl.h, probe.hsl.s, probe.hsl.l), 300000)

\* C6 as stated: RGBToHex, hexToHSL, then HSLToRGB give every channel back
\* within 1.  (Stated on the runs in which no rounding is on a half-integer,
\* where the outcome is that of the source whatever its rounding error.)
C6_RoundTripWithin1 ==
    (probe.stage = "back" /\ ExactHSL /\ ExactRGB) => C6_Deviation <= 1

\* C6 as amended: RGBToHex, hexToHSL, then HSLToRGB give every channel back
\* within 5.
C6_RoundTripWithin5 ==
    probe.stage = "back" => C6_Deviation <= 5

\* A triple that comes back 5 off in its green channel.
C6_Witness ==
    /\ probe.stage = "back"
    /\ probe.rgb = [r |-> 2, g |-> 228, b |-> 230]
    /\ probe.hsl = [h |-> 181, s |-> 98, l |-> 45]
    /\ probe.back = [r |-> 2, g |-> 223, b |-> 227]

\* C7: hexToHSL returns h in 0..359, never 360, and s and l in 0..100.
\* (Stated on the runs in which no rounding is on a half-integer.)
C7_HSLInRange ==
    (probe.stage = "hsl" /\ ExactHSL) =>
        /\ probe.hsl.h \in 0..359
        /\ probe.hsl.s \in 0..100
        /\ probe.hsl.l \in 0..100

\* C8: a step that changes the base colour keeps the selected index, and a
\* step that changes the selected index is a click on a palette entry.
C8_EditKeepsIndex ==
    [][/\ baseColor' # baseColor => selectedColor' = selectedColor
       /\ selectedColor' # selectedColor => \E i \in 0..7 : generateShades(i)]_vars

\* The base colour was edited while entry 3 was selected, and it still is.
C8_Witness ==
    /\ last.op \in {"setHue", "setSaturation", "setLightness", "handleHexInput"}
    /\ last.changed
    /\ selectedColor = Some(3)

\* C9: a shade is selected only while a palette entry is, and it carries a
\* rowIndex in 0..2 and an index in 0..4.
C9_ShadeNeedsEntry ==
    selectedShade # Null =>
        /\ selectedColor # Null
        /\ selectedColor[1] \in 0..7
        /\ selectedShade[1].rowIndex \in 0..2
        /\ selectedShade[1].index \in 0..4

\* The last shade of the last row of the last entry is selected.
C9_Witness ==
    /\ selectedColor = Some(7)
    /\ selectedShade # Null
    /\ selectedShade[1].rowIndex = 2
    /\ selectedShade[1].index = 4

\* C10: the shade list of every palette entry is empty or the 15 shades of
\* that entry as it is now, and a step that changes the base colour leaves
\* every entry, the selected one included, without shades.
C10_ShadesAreCurrent ==
    /\ [](\A i \in DOMAIN palette :
             \/ palette[i].shades = <<>>
             \/ /\ Len(palette[i].shades) = 15
                /\ palette[i].shades = NewShades([h |-> palette[i].h, s |-> palette[i].s]))
    /\ [][baseColor' # baseColor =>
             \A i \in DOMAIN palette' : palette'[i].shades = <<>>]_vars

\* After an edit of the base colour the selected index points at an entry
\* without shades, which had shades before the edit.
C10_Witness ==
    /\ last.op = "setSaturation"
    /\ last.changed
    /\ selectedColor = Some(2)
    /\ palette[3].shades = <<>>

=============================================================================
